---- MODULE Spec2Model ----
(***************************************************************************)
(* Model of script/hce_utility.py: execute(cmd, cwd, env) spawns a child  *)
(* with subprocess.Popen, reads the child's merged stdout/stderr pipe      *)
(* line by line, decodes every line as UTF-8, accumulates and echoes it,   *)
(* then calls communicate() and returns (returncode, stderr, stdout).      *)
(* The child process runs concurrently with the call.                      *)
(***************************************************************************)
EXTENDS Integers, Sequences, FiniteSets

(* ------------------------------ bounds -------------------------------- *)
\* most bytes a child writes to its output descriptors in one run
MaxLen == 4
\* largest exit status a child terminates with
MaxExit == 2
\* most items pending on the caller's own standard input
MaxStdin == 1

\* bytes a child writes: '\n', 'a', and 0xC3 0xA9 (the two bytes of U+00E9);
\* a lone 0xC3 or 0xA9, or 0xC3 followed by '\n', is not valid UTF-8
ByteSet == {10, 97, 195, 169}
ExitCodes == 0..MaxExit
NL == 10

(* --------------------------- Python values ---------------------------- *)
PyNone == [tag |-> "None", val |-> <<>>]
PyInt(n) == [tag |-> "int", val |-> <<n>>]
PyStr(s) == [tag |-> "str", val |-> s]
PyBytes(b) == [tag |-> "bytes", val |-> b]
\* a name that has not been assigned yet
Unbound == [tag |-> "unbound", val |-> <<>>]

(* --------------------- Popen's stream arguments ----------------------- *)
\* variant: the child is spawned with stdin=subprocess.DEVNULL
StdinArgDevnull == "DEVNULL"

\* line 4 passes no stdin argument (default None), stdout=PIPE, stderr=STDOUT
StdinArg == "None"
StdoutArg == "PIPE"
StderrArg == "STDOUT"

\* where the child's descriptor 0 comes from, for a stdin argument
StdinOf(arg) ==
  CASE arg = "None" -> "inherit"
    [] arg = "PIPE" -> "pipe"
    [] arg = "DEVNULL" -> "devnull"

\* the pipe a byte written to descriptor fd of the child lands in
RouteOf(fd) ==
  IF fd = 1
    THEN (IF StdoutArg = "PIPE" THEN "out" ELSE "caller")
    ELSE CASE StderrArg = "STDOUT" -> (IF StdoutArg = "PIPE" THEN "out" ELSE "caller")
           [] StderrArg = "PIPE" -> "err"
           [] OTHER -> "caller"

(* ------------------------ str(line, 'utf-8') -------------------------- *)
\* length of the UTF-8 sequence a lead byte starts, 0 for an invalid lead
SeqLenOf(b) ==
  CASE b < 128 -> 1
    [] b >= 194 /\ b <= 223 -> 2
    [] b >= 224 /\ b <= 239 -> 3
    [] b >= 240 /\ b <= 244 -> 4
    [] OTHER -> 0

\* the range the second byte of a sequence must lie in, by lead byte
SecondLo(b) == IF b = 224 THEN 160 ELSE IF b = 240 THEN 144 ELSE 128
SecondHi(b) == IF b = 237 THEN 159 ELSE IF b = 244 THEN 143 ELSE 191

IsCont(b) == b >= 128 /\ b <= 191

\* bs starts with a well-formed sequence of n bytes
WellFormed(bs, n) ==
  /\ n > 0
  /\ Len(bs) >= n
  /\ n >= 2 => (bs[2] >= SecondLo(bs[1]) /\ bs[2] <= SecondHi(bs[1]))
  /\ \A i \in 3..n : IsCont(bs[i])

\* the code point of the well-formed sequence of n bytes bs starts with
CodePoint(bs, n) ==
  CASE n = 1 -> bs[1]
    [] n = 2 -> (bs[1] - 192) * 64 + (bs[2] - 128)
    [] n = 3 -> (bs[1] - 224) * 4096 + (bs[2] - 128) * 64 + (bs[3] - 128)
    [] n = 4 -> (bs[1] - 240) * 262144 + (bs[2] - 128) * 4096
                  + (bs[3] - 128) * 64 + (bs[4] - 128)

RECURSIVE Utf8Decode(_)
\* strict decoding: ok is FALSE where Python raises UnicodeDecodeError
Utf8Decode(bs) ==
  IF bs = <<>>
    THEN [ok |-> TRUE, text |-> <<>>]
    ELSE LET n == SeqLenOf(bs[1]) IN
         IF ~WellFormed(bs, n)
           THEN [ok |-> FALSE, text |-> <<>>]
           ELSE LET rest == Utf8Decode(SubSeq(bs, n + 1, Len(bs))) IN
                [ok |-> rest.ok,
                 text |-> IF rest.ok THEN <<CodePoint(bs, n)>> \o rest.text ELSE <<>>]

(* -------------------- iteration of process.stdout --------------------- *)
\* position of the first newline of bs, 0 when there is none
FirstNL(bs) ==
  IF \E i \in 1..Len(bs) : bs[i] = NL
    THEN CHOOSE i \in 1..Len(bs) : bs[i] = NL /\ \A j \in 1..(i - 1) : bs[j] # NL
    ELSE 0

\* a line can be handed out: a newline is buffered, or the write end is
\* closed and bytes remain
LineReady(pipe, open) == FirstNL(pipe) > 0 \/ (~open /\ pipe # <<>>)

\* the bytes the next line takes from the pipe
NextLine(pipe) ==
  IF FirstNL(pipe) > 0 THEN SubSeq(pipe, 1, FirstNL(pipe)) ELSE pipe

\* variant: an empty buffer is taken for end of file (a non-blocking read)
AtEOFEmpty(pipe, open) == pipe = <<>>

\* end of file: nothing buffered and no writer left
AtEOF(pipe, open) == pipe = <<>> /\ ~open

\* variant: print without end='' appends its default newline
EchoTextNewline(text, end) == text \o <<NL>>

\* print(fmt_line, flush=True, end=''): the text written to the caller's stdout
EchoText(text, end) == text \o end


(* ------------------------------- state -------------------------------- *)
VARIABLES
  launchable,   \* input: the command, cwd and env can be spawned
  callerStdin,  \* input: items pending on the caller's own standard input
  stdinOpen,    \* input: the caller's standard input has not reached its end
  pc,           \* position of the call in execute
  child,        \* the child process: none, running, exited, reaped
  childStdin,   \* what the child's descriptor 0 is connected to
  childIn,      \* what the child has read from its standard input
  childSawEOF,  \* the child read end-of-input on its standard input
  exitStatus,   \* the status the child terminated with
  writeOpen,    \* the child still holds the write ends of its output
  emitted,      \* every byte the child wrote to descriptor 1 or 2, in order
  wroteErr,     \* the child has written to its descriptor 2
  outPipe,      \* bytes buffered in process.stdout
  errPipe,      \* bytes buffered in process.stderr (when it is a pipe)
  procStdin,    \* process.stdin
  readChunks,   \* the lines the for loop has been handed, in order
  line,         \* line 7
  fmt_line,     \* line 8
  stdout,       \* lines 5 and 9
  echoed,       \* every text print wrote to the caller's stdout, in order
  stub_stdout,  \* line 12
  stderr,       \* line 12
  returncode,   \* process.returncode
  result,       \* the tuple execute returned, <<>> while there is none
  spawns,       \* Popen calls made
  loops,        \* for loops entered
  waits         \* communicate calls that waited on the child

vars == <<launchable, callerStdin, stdinOpen, pc, child, childStdin, childIn,
          childSawEOF, exitStatus, writeOpen, emitted, wroteErr, outPipe,
          errPipe, procStdin, readChunks, line, fmt_line, stdout, echoed, stub_stdout,
          stderr, returncode, result, spawns, loops, waits>>

inputVars == <<launchable, stdinOpen>>
childVars == <<child, childStdin, childIn, childSawEOF, exitStatus, writeOpen,
               emitted, wroteErr, callerStdin>>
pipeVars == <<outPipe, errPipe>>
localVars == <<procStdin, readChunks, line, fmt_line, stdout, echoed,
               stub_stdout, stderr, returncode, result>>
countVars == <<spawns, loops, waits>>
callVars == <<pc, localVars, countVars>>

RECURSIVE SeqsUpTo(_, _)
\* sequences over S of length at most n
SeqsUpTo(S, n) ==
  IF n = 0 THEN {<<>>}
  ELSE LET shorter == SeqsUpTo(S, n - 1) IN
       shorter \cup {Append(q, x) : q \in shorter, x \in S}

NoResult == <<>>

Init ==
  /\ launchable \in BOOLEAN
  /\ callerStdin \in SeqsUpTo({0}, MaxStdin)
  /\ stdinOpen \in BOOLEAN
  /\ pc = "start"
  /\ child = "none"
  /\ childStdin = "none"
  /\ childIn = <<>>
  /\ childSawEOF = FALSE
  /\ exitStatus = 0
  /\ writeOpen = FALSE
  /\ emitted = <<>>
  /\ wroteErr = FALSE
  /\ outPipe = <<>>
  /\ errPipe = <<>>
  /\ procStdin = Unbound
  /\ readChunks = <<>>
  /\ line = Unbound
  /\ fmt_line = Unbound
  /\ stdout = Unbound
  /\ echoed = <<>>
  /\ stub_stdout = Unbound
  /\ stderr = Unbound
  /\ returncode = PyNone
  /\ result = NoResult
  /\ spawns = 0
  /\ loops = 0
  /\ waits = 0

(* ------------------------- the child process -------------------------- *)
\* the child writes byte b to its descriptor fd (1 or 2)
ChildWrite(fd, b) ==
  /\ child = "running"
  /\ writeOpen
  /\ Len(emitted) < MaxLen
  /\ emitted' = Append(emitted, b)
  /\ wroteErr' = (wroteErr \/ fd = 2)
  /\ outPipe' = IF RouteOf(fd) = "out" THEN Append(outPipe, b) ELSE outPipe
  /\ errPipe' = IF RouteOf(fd) = "err" THEN Append(errPipe, b) ELSE errPipe
  /\ UNCHANGED <<inputVars, callVars, child, childStdin, childIn, childSawEOF,
                 exitStatus, writeOpen, callerStdin>>

\* the child closes its descriptors 1 and 2 and keeps running
ChildCloseOut ==
  /\ child = "running"
  /\ writeOpen
  /\ writeOpen' = FALSE
  /\ UNCHANGED <<inputVars, callVars, pipeVars, child, childStdin, childIn,
                 childSawEOF, exitStatus, emitted, wroteErr, callerStdin>>

\* the child reads its standard input
ChildReadStdin ==
  /\ child = "running"
  /\ \/ /\ childStdin = "inherit"
        /\ callerStdin # <<>>
        /\ childIn' = Append(childIn, Head(callerStdin))
        /\ callerStdin' = Tail(callerStdin)
        /\ UNCHANGED childSawEOF
     \/ /\ \/ childStdin = "devnull"
           \/ childStdin = "inherit" /\ callerStdin = <<>> /\ ~stdinOpen
        /\ ~childSawEOF
        /\ childSawEOF' = TRUE
        /\ UNCHANGED <<childIn, callerStdin>>
  /\ UNCHANGED <<inputVars, callVars, pipeVars, child, childStdin, exitStatus,
                 writeOpen, emitted, wroteErr>>

\* the child terminates with status code; its descriptors are closed
ChildExit(code) ==
  /\ child = "running"
  /\ child' = "exited"
  /\ exitStatus' = code
  /\ writeOpen' = FALSE
  /\ UNCHANGED <<inputVars, callVars, pipeVars, childStdin, childIn,
                 childSawEOF, emitted, wroteErr, callerStdin>>

(* ------------------------------ execute ------------------------------- *)
\* variant: a spawn failure is swallowed and the call goes on
LaunchUnchecked ==
  /\ pc = "start"
  /\ spawns' = spawns + 1
  /\ IF launchable
       THEN /\ child' = "running"
            /\ childStdin' = StdinOf(StdinArg)
            /\ writeOpen' = TRUE
            /\ procStdin' = IF StdinArg = "PIPE" THEN PyBytes(<<>>) ELSE PyNone
       ELSE UNCHANGED <<child, childStdin, writeOpen, procStdin>>
  /\ pc' = "assign"
  /\ UNCHANGED <<inputVars, pipeVars, childIn, childSawEOF, exitStatus, emitted,
                 wroteErr, callerStdin, readChunks, line, fmt_line, stdout,
                 echoed, stub_stdout, stderr, returncode, result, loops, waits>>

\* line 4: subprocess.Popen(cmd, stdout=PIPE, stderr=STDOUT, cwd=cwd, env=env)
Launch ==
  /\ pc = "start"
  /\ spawns' = spawns + 1
  /\ IF launchable
       THEN /\ child' = "running"
            /\ childStdin' = StdinOf(StdinArg)
            /\ writeOpen' = TRUE
            /\ procStdin' = IF StdinArg = "PIPE" THEN PyBytes(<<>>) ELSE PyNone
            /\ pc' = "assign"
       ELSE /\ pc' = "launch_error"
            /\ UNCHANGED <<child, childStdin, writeOpen, procStdin>>
  /\ UNCHANGED <<inputVars, pipeVars, childIn, childSawEOF, exitStatus, emitted,
                 wroteErr, callerStdin, readChunks, line, fmt_line, stdout, echoed,
                 stub_stdout, stderr, returncode, result, loops, waits>>

\* line 5: stdout = '', and the for statement of line 7 is entered
AssignStdout ==
  /\ pc = "assign"
  /\ stdout' = PyStr(<<>>)
  /\ loops' = loops + 1
  /\ pc' = "loop"
  /\ UNCHANGED <<inputVars, childVars, pipeVars, procStdin, readChunks, line,
                 fmt_line, echoed, stub_stdout, stderr, returncode, result,
                 spawns, waits>>

\* line 7: for line in process.stdout
ReadLine ==
  /\ pc = "loop"
  /\ \/ /\ LineReady(outPipe, writeOpen)
        /\ line' = PyBytes(NextLine(outPipe))
        /\ readChunks' = Append(readChunks, NextLine(outPipe))
        /\ outPipe' = SubSeq(outPipe, Len(NextLine(outPipe)) + 1, Len(outPipe))
        /\ pc' = "decode"
     \/ /\ AtEOF(outPipe, writeOpen)
        /\ pc' = "communicate"
        /\ UNCHANGED <<line, readChunks, outPipe>>
  /\ UNCHANGED <<inputVars, childVars, errPipe, procStdin, fmt_line, stdout,
                 echoed, stub_stdout, stderr, returncode, result, countVars>>

\* variant: stdout = fmt_line in place of stdout += fmt_line
DecodeAssign ==
  /\ pc = "decode"
  /\ LET d == Utf8Decode(line.val) IN
     IF d.ok
       THEN /\ fmt_line' = PyStr(d.text)
            /\ stdout' = PyStr(d.text)
            /\ pc' = "print"
       ELSE /\ pc' = "decode_error"
            /\ UNCHANGED <<fmt_line, stdout>>
  /\ UNCHANGED <<inputVars, childVars, pipeVars, procStdin, readChunks, line,
                 echoed, stub_stdout, stderr, returncode, result, countVars>>

\* variant: a line that does not decode is skipped and the loop goes on
DecodeSkipInvalid ==
  /\ pc = "decode"
  /\ LET d == Utf8Decode(line.val) IN
     IF d.ok
       THEN /\ fmt_line' = PyStr(d.text)
            /\ stdout' = PyStr(stdout.val \o d.text)
            /\ pc' = "print"
       ELSE /\ pc' = "loop"
            /\ UNCHANGED <<fmt_line, stdout>>
  /\ UNCHANGED <<inputVars, childVars, pipeVars, procStdin, readChunks, line,
                 echoed, stub_stdout, stderr, returncode, result, countVars>>

\* lines 8-9: fmt_line = str(line, 'utf-8'); stdout += fmt_line
DecodeAppend ==
  /\ pc = "decode"
  /\ LET d == Utf8Decode(line.val) IN
     IF d.ok
       THEN /\ fmt_line' = PyStr(d.text)
            /\ stdout' = PyStr(stdout.val \o d.text)
            /\ pc' = "print"
       ELSE /\ pc' = "decode_error"
            /\ UNCHANGED <<fmt_line, stdout>>
  /\ UNCHANGED <<inputVars, childVars, pipeVars, procStdin, readChunks, line,
                 echoed, stub_stdout, stderr, returncode, result, countVars>>

\* variant: the print of line 10 is missing
EchoSkipped ==
  /\ pc = "print"
  /\ pc' = "loop"
  /\ UNCHANGED <<inputVars, childVars, pipeVars, localVars, countVars>>

\* line 10: print(fmt_line, flush=True, end='')
Echo ==
  /\ pc = "print"
  /\ echoed' = Append(echoed, EchoText(fmt_line.val, <<>>))
  /\ pc' = "loop"
  /\ UNCHANGED <<inputVars, childVars, pipeVars, procStdin, readChunks, line,
                 fmt_line, stdout, stub_stdout, stderr, returncode, result,
                 countVars>>

\* what communicate hands back for a stream: its bytes if it is a pipe
Collected(arg, pipe) == IF arg = "PIPE" THEN PyBytes(pipe) ELSE PyNone

\* line 12, first half: communicate reads the pipes to end of file
CommunicateRead ==
  /\ pc = "communicate"
  /\ ~writeOpen
  /\ stub_stdout' = Collected(StdoutArg, outPipe)
  /\ stderr' = Collected(StderrArg, errPipe)
  /\ outPipe' = <<>>
  /\ errPipe' = <<>>
  /\ pc' = "wait"
  /\ UNCHANGED <<inputVars, childVars, procStdin, readChunks, line, fmt_line,
                 stdout, echoed, returncode, result, countVars>>

\* variant: the call goes on without waiting for the child to terminate
CommunicateNoWait ==
  /\ pc = "wait"
  /\ pc' = "return"
  /\ UNCHANGED <<inputVars, childVars, pipeVars, localVars, countVars>>

\* line 12, second half: communicate waits for the child and sets returncode
CommunicateWait ==
  /\ pc = "wait"
  /\ child = "exited"
  /\ child' = "reaped"
  /\ returncode' = PyInt(exitStatus)
  /\ waits' = waits + 1
  /\ pc' = "return"
  /\ UNCHANGED <<inputVars, pipeVars, childStdin, childIn, childSawEOF,
                 exitStatus, writeOpen, emitted, wroteErr, callerStdin, procStdin,
                 readChunks, line, fmt_line, stdout, echoed, stub_stdout,
                 stderr, result, spawns, loops>>

\* variant: return process.returncode, stdout, stderr
ReturnSwapped ==
  /\ pc = "return"
  /\ result' = <<returncode, stdout, stderr>>
  /\ pc' = "returned"
  /\ UNCHANGED <<inputVars, childVars, pipeVars, procStdin, readChunks, line,
                 fmt_line, stdout, echoed, stub_stdout, stderr, returncode,
                 countVars>>

\* line 14: return process.returncode, stderr, stdout
Return ==
  /\ pc = "return"
  /\ result' = <<returncode, stderr, stdout>>
  /\ pc' = "returned"
  /\ UNCHANGED <<inputVars, childVars, pipeVars, procStdin, readChunks, line,
                 fmt_line, stdout, echoed, stub_stdout, stderr, returncode,
                 countVars>>

Next ==
  \/ \E fd \in {1, 2}, b \in ByteSet : ChildWrite(fd, b)
  \/ ChildCloseOut
  \/ ChildReadStdin
  \/ \E code \in ExitCodes : ChildExit(code)
  \/ Launch
  \/ AssignStdout
  \/ ReadLine
  \/ DecodeAppend
  \/ Echo
  \/ CommunicateRead
  \/ CommunicateWait
  \/ Return

Spec == Init /\ [][Next]_vars

(* ----------------------------- lifecycle ------------------------------ *)
\* the state of the call's state machine at each position of execute
Lifecycle ==
  CASE pc \in {"start", "launch_error"} -> "NotStarted"
    [] pc \in {"assign", "loop", "decode", "print", "decode_error"} -> "Running"
    [] pc \in {"communicate", "wait"} -> "StreamDrained"
    [] pc \in {"return", "returned"} -> "Terminated"

\* the call has given control back to its caller, by return or by raise
Ended == pc \in {"returned", "launch_error", "decode_error"}

(* --------------------------- vocabulary ------------------------------- *)
Rank(st) ==
  CASE st = "NotStarted" -> 0
    [] st = "Running" -> 1
    [] st = "StreamDrained" -> 2
    [] st = "Terminated" -> 3

RECURSIVE ConcatAll(_)
ConcatAll(ss) == IF ss = <<>> THEN <<>> ELSE Head(ss) \o ConcatAll(Tail(ss))

TextOf(bs) == Utf8Decode(bs).text
Valid(bs) == Utf8Decode(bs).ok
\* the texts of the first n lines read
DecodedChunks(n) == [i \in 1..n |-> TextOf(readChunks[i])]
LastChunk == readChunks[Len(readChunks)]
\* every line read but possibly the last ends with its only newline
LineChunked ==
  \A i \in 1..Len(readChunks) :
    /\ readChunks[i] # <<>>
    /\ FirstNL(readChunks[i]) \in {0, Len(readChunks[i])}
    /\ i < Len(readChunks) => FirstNL(readChunks[i]) # 0

(* ------------------------------ claims -------------------------------- *)
\* C1: when execute returns, the accumulated output is the concatenation of
\* the line chunks the child emitted, in emission order, each decoded as
\* UTF-8: the chunks read partition exactly the bytes emitted (none lost,
\* duplicated or reordered), the final chunk without a newline included.
C1_AccumulatedIsEmitted ==
  pc = "returned" =>
    /\ LineChunked
    /\ ConcatAll(readChunks) = emitted
    /\ \A i \in 1..Len(readChunks) : Valid(readChunks[i])
    /\ result[3] = PyStr(ConcatAll(DecodedChunks(Len(readChunks))))
    /\ result[3] = PyStr(TextOf(emitted))

\* C1 witness: a return after two chunks, the last one ending at end of file
\* without a newline, with a multi-byte character decoded
C1_Witness ==
  /\ pc = "returned"
  /\ Len(readChunks) >= 2
  /\ LastChunk[Len(LastChunk)] # NL
  /\ result[3].val # emitted

\* C2: the sink is invoked once per chunk read, in chunk order, with the
\* chunk's text; after every completed iteration the echoed text equals the
\* accumulation buffer, and at return it equals the returned output.
C2_EchoMatchesAccumulation ==
  /\ pc \in {"loop", "communicate", "wait", "return", "returned"} =>
       /\ Len(echoed) = Len(readChunks)
       /\ \A i \in 1..Len(echoed) : echoed[i] = TextOf(readChunks[i])
       /\ ConcatAll(echoed) = stdout.val
  /\ pc = "returned" => PyStr(ConcatAll(echoed)) = result[3]

\* C2 witness: the loop head after two echoed chunks, more output pending
C2_Witness ==
  /\ pc = "loop"
  /\ Len(echoed) = 2
  /\ outPipe # <<>>

\* C3: a call that returns reports the status the child really terminated
\* with, whatever its value, from a child that has been waited for; the call
\* raises only for a spawn failure or an undecodable line, never for a status.
C3_ExitCodeReported ==
  /\ pc = "returned" =>
       /\ child = "reaped"
       /\ result[1] = PyInt(exitStatus)
  /\ pc = "launch_error" => ~launchable
  /\ pc = "decode_error" => ~Valid(line.val)

\* C3 witness: a normal return carrying a non-zero exit code
C3_Witness ==
  /\ pc = "returned"
  /\ exitStatus > 0
  /\ result[1] = PyInt(exitStatus)

\* C4: in every state where the call has ended, on any path, the child it
\* spawned is terminated and its merged stream is drained to end of file.
C4_EndedImpliesTerminatedAndDrained ==
  (Ended /\ child # "none") =>
    /\ child = "reaped"
    /\ outPipe = <<>>
    /\ ~writeOpen

\* C5: a chunk that is not valid UTF-8 aborts the call at once: it is the
\* last chunk ever read, no result, exit code or buffer reaches the caller,
\* and after the error nothing more is read, accumulated or echoed.
C5_DecodeErrorAborts ==
  /\ [](\A i \in 1..Len(readChunks) :
          ~Valid(readChunks[i]) =>
            (i = Len(readChunks) /\ pc \in {"decode", "decode_error"}))
  /\ [](pc = "decode_error" =>
          /\ ~Valid(LastChunk)
          /\ line = PyBytes(LastChunk)
          /\ result = NoResult
          /\ returncode = PyNone)
  /\ [][(pc = "decode" /\ ~Valid(line.val)) => pc' \in {"decode", "decode_error"}]_vars
  /\ [][pc = "decode_error" => UNCHANGED <<pc, localVars, countVars>>]_vars

\* C5 witness: the call ended by the decoding error with later output unread
C5_Witness ==
  /\ pc = "decode_error"
  /\ outPipe # <<>>
  /\ result = NoResult

\* C6: a command that cannot be spawned fails at the Popen call: no result,
\* no echo, nothing accumulated or read, and no child process exists.
C6_LaunchErrorLeavesNothing ==
  /\ (~launchable /\ pc # "start") => pc = "launch_error"
  /\ pc = "launch_error" =>
       /\ ~launchable
       /\ result = NoResult
       /\ echoed = <<>>
       /\ stdout = Unbound
       /\ readChunks = <<>>
       /\ emitted = <<>>
       /\ child = "none"
       /\ returncode = PyNone

\* C6 witness: the call ended by the launch error
C6_Witness ==
  /\ pc = "launch_error"
  /\ spawns = 1

\* C7 (as stated): the result is the exit code, then the accumulated output,
\* then an error-capture field that is empty text.
C7_ResultCodeOutputEmptyText ==
  pc = "returned" => result = <<PyInt(exitStatus), stdout, PyStr(<<>>)>>

\* C7 (amended): the result is the exit code, then the error-capture field,
\* which is None, then the accumulated output, which holds everything the
\* child wrote to descriptor 1 or 2.
C7_ResultCodeNoneOutput ==
  pc = "returned" =>
    result = <<PyInt(exitStatus), PyNone, PyStr(TextOf(emitted))>>

\* C7 witness: a return from a child that wrote to its standard error
C7_Witness ==
  /\ pc = "returned"
  /\ wroteErr
  /\ result[3].val # <<>>
  /\ result[2] = PyNone

\* C8 (as stated): in no execution does the child read from the caller's
\* standard input.
C8_ChildNeverReadsCallerStdin == childIn = <<>>

\* C8 (amended): execute holds no pipe to the child's standard input, which
\* is the caller's own, inherited: the child sees end-of-input only when the
\* caller's standard input has ended with nothing pending.
C8_StdinInherited ==
  /\ child # "none" => (childStdin = "inherit" /\ procStdin = PyNone)
  /\ childSawEOF => (~stdinOpen /\ callerStdin = <<>>)

\* C8 witness: a running child that has consumed the caller's pending input
C8_Witness ==
  /\ child = "running"
  /\ childIn # <<>>
  /\ callerStdin = <<>>

\* C9 (as stated): every call that has ended has made exactly one spawn, one
\* drain loop and one wait.
C9_ExactlyOneCyclePerCall ==
  Ended => (spawns = 1 /\ loops = 1 /\ waits = 1)

\* C9 (amended): the lifecycle only moves forward one state at a time, the
\* wait is issued only after end of file, and a call makes at most one spawn,
\* drain loop and wait: exactly one of each when it returns, a spawn alone
\* when the launch fails, and no wait when decoding fails.
C9_ForwardLifecycle ==
  /\ [][Rank(Lifecycle)' \in {Rank(Lifecycle), Rank(Lifecycle) + 1}]_vars
  /\ [](spawns <= 1 /\ loops <= 1 /\ waits <= 1)
  /\ [](Rank(Lifecycle) >= 2 => (outPipe = <<>> /\ ~writeOpen))
  /\ [](pc = "returned" => (spawns = 1 /\ loops = 1 /\ waits = 1))
  /\ [](pc = "launch_error" => (spawns = 1 /\ loops = 0 /\ waits = 0))
  /\ [](pc = "decode_error" => (spawns = 1 /\ loops = 1 /\ waits = 0))

\* C9 witness: a completed call that read output and went through the cycle
C9_Witness ==
  /\ pc = "returned"
  /\ Lifecycle = "Terminated"
  /\ readChunks # <<>>
  /\ spawns = 1 /\ loops = 1 /\ waits = 1

\* C10: when decoding fails on the k-th chunk, the k-1 chunks before it have
\* been echoed and accumulated, the k-th is neither, and the call has ended
\* without waiting on the child, which has not been reaped.
C10_DecodeErrorPartialEcho ==
  pc = "decode_error" =>
    LET k == Len(readChunks) IN
    /\ k >= 1
    /\ echoed = DecodedChunks(k - 1)
    /\ stdout = PyStr(ConcatAll(DecodedChunks(k - 1)))
    /\ waits = 0
    /\ child \in {"running", "exited"}

\* C10 witness: the call ended on its second chunk, the first one echoed,
\* while the child is still running and output is still in the pipe
C10_Witness ==
  /\ pc = "decode_error"
  /\ Len(readChunks) = 2
  /\ Len(echoed) = 1
  /\ child = "running"
  /\ outPipe # <<>>

====
